---- MODULE Spec2Model ----
(***************************************************************************)
(* The persona workflow (search -> evaluate -> search more -> generate),   *)
(* the Voiceboard object that drives it, the session registry and socket  *)
(* / REST gateway of the server, and the chat page of the web client.     *)
(*                                                                         *)
(* Every asynchronous call of the program (an initialize(), a chat(), a    *)
(* socket or REST handler) is a task: a record with the place it is        *)
(* suspended at (pc) and the channel values of the graph run it awaits     *)
(* (run).  A step of a task runs from one await of an external call        *)
(* (search provider, language model) to the next, as the event loop does.  *)
(***************************************************************************)
EXTENDS Integers, Sequences, FiniteSets, TLC

VARIABLES heap, voiceboards, tasks, emitted, connected, page

vars == <<heap, voiceboards, tasks, emitted, connected, page>>

----------------------------------------------------------------------------
(* Program constants *)

\* workflow.ts: totalContent >= 15
MinContent == 15
\* Faulty variant: a limit of 6 attempts.
MaxAttempts_six == 4 + 2

\* workflow.ts: state.searchAttempts < 4
MaxAttempts == 4
\* workflow.ts: new TavilySearchResults({ maxResults: 20 })
MaxResults == 20
\* conversation.ts: allContent.slice(0, 15)
ContextItems == 15

(* Bounds of the model *)

\* new Date().getFullYear() at the time of the run
CurrentYear == 2026
\* calls made on the Voiceboard in a run
MaxCalls == 2
\* requests and socket events the server handles in a run
MaxRequests == 3
\* Voiceboard objects constructed by the server in a run
MaxBoards == 3
\* calls on one Voiceboard that are in flight together
MaxOverlap == 2

----------------------------------------------------------------------------
(* Inputs *)

Persons == {"Ada"}
Messages == {"hello"}
Replies == {"reply-1"}
ServerReplies == {"reply-1"}
Conns == {"c1", "c2"}
\* The session ids REST clients send: a connection's id, or one of their own.
SessionIds == {"c1", "s1"}
AllIds == Conns \cup SessionIds \cup {""}

\* The year tokens a snippet's JSON text may contain.
OldYear == CurrentYear - 2
PrevYear == CurrentYear - 1

\* One search result: the call that returned it, its rank, and the year
\* tokens JSON.stringify of it contains.
Snippet(k, i, ys) == [call |-> k, rank |-> i, years |-> ys]

\* A result page of n snippets from call k whose last item mentions the
\* years ys; the others mention an old year.
Batch(k, n, ys) == [i \in 1..n |-> Snippet(k, i, IF i = n THEN ys ELSE {OldYear})]

\* Result pages of the initial search (call 0) and of the follow-up
\* searches (call k >= 1), none longer than MaxResults.
InitialPages ==
    {<<>>, Batch(0, MaxResults, {CurrentYear})}
    \cup {Batch(0, MinContent - 1, ys) : ys \in {{OldYear}, {CurrentYear}}}
    \cup {Batch(0, MinContent, ys) : ys \in {{OldYear}, {PrevYear}, {CurrentYear}}}
MorePages(k) ==
    {<<>>, Batch(k, MinContent, {CurrentYear})}
    \cup {Batch(k, 1, ys) : ys \in {{OldYear}, {CurrentYear}}}

\* The result pages the overlapping calls draw from: none, or a full page
\* of recent results, for the initial search; none for a follow-up search.
OverlapInitialPages == {<<>>, Batch(0, MaxResults, {CurrentYear})}
OverlapMorePages == {<<>>}

\* The result page the runs of the server draw from: a full page of recent
\* results, so that the first evaluate is sufficient.
ServerInitialPages == {Batch(0, MaxResults, {CurrentYear})}

----------------------------------------------------------------------------
(* workflow.ts, conversation.ts: the nodes, as the state patch each returns *)

\* The StateGraph channels: value: (x, y) => y ?? x, so a patch replaces
\* the channels it names and leaves the others.
MergeState(state, patch) ==
    [f \in DOMAIN state |-> IF f \in DOMAIN patch THEN patch[f] ELSE state[f]]

\* Faulty variant: the initial search is not counted as an attempt.
searchRecentTweets_uncounted(state, results) ==
    [tweets |-> results, searchAttempts |-> state.searchAttempts]

searchRecentTweets(state, results) ==
    [tweets |-> results, searchAttempts |-> state.searchAttempts + 1]

\* tweetStr.includes(String(currentYear)) || tweetStr.includes(String(currentYear - 1))
MentionsRecent(t) == CurrentYear \in t.years \/ (CurrentYear - 1) \in t.years

\* Faulty variant: evaluate counts as an attempt.
evaluateData_countsAttempt(state) ==
    LET totalContent == Len(state.tweets) + Len(state.otherContent)
        hasRecent == \E i \in 1..Len(state.tweets) : MentionsRecent(state.tweets[i])
    IN  [dataSufficient |-> (totalContent >= MinContent /\ hasRecent),
         searchAttempts |-> state.searchAttempts + 1]

\* Faulty variant: more than 15 snippets are required.
evaluateData_strict(state) ==
    LET totalContent == Len(state.tweets) + Len(state.otherContent)
        hasRecent == \E i \in 1..Len(state.tweets) : MentionsRecent(state.tweets[i])
    IN  [dataSufficient |-> (totalContent > MinContent /\ hasRecent)]

evaluateData(state) ==
    LET totalContent == Len(state.tweets) + Len(state.otherContent)
        hasRecent == \E i \in 1..Len(state.tweets) : MentionsRecent(state.tweets[i])
    IN  [dataSufficient |-> (totalContent >= MinContent /\ hasRecent)]

\* Faulty variant: the switch has no case for 2 attempts.
searchAdditionalQuery_noCaseTwo(state) ==
    IF state.searchAttempts = 1 THEN <<state.personName, "interview podcast 2024">>
    ELSE <<state.personName, "opinions views">>

\* searchAdditionalSources: the query of its search call, the person's name
\* followed by the words the switch on searchAttempts chooses.
searchAdditionalQuery(state) ==
    CASE state.searchAttempts = 1 -> <<state.personName, "interview podcast 2024">>
      [] state.searchAttempts = 2 -> <<state.personName, "speech quotes recent">>
      [] OTHER -> <<state.personName, "opinions views">>

\* Faulty variant: a follow-up search is not counted as an attempt.
searchAdditionalSources_uncounted(state, results) ==
    [otherContent |-> state.otherContent \o results,
     searchAttempts |-> state.searchAttempts]

\* Faulty variant: the results replace otherContent instead of extending it.
searchAdditionalSources_replace(state, results) ==
    [otherContent |-> results,
     searchAttempts |-> state.searchAttempts + 1]

searchAdditionalSources(state, results) ==
    [otherContent |-> state.otherContent \o results,
     searchAttempts |-> state.searchAttempts + 1]

\* Faulty variant: searchAttempts <= 4 instead of < 4.
shouldSearchMore_inclusive(state) ==
    IF state.dataSufficient THEN "generate"
    ELSE IF state.searchAttempts <= MaxAttempts THEN "searchMore"
    ELSE "generate"

shouldSearchMore(state) ==
    IF state.dataSufficient THEN "generate"
    ELSE IF state.searchAttempts < MaxAttempts THEN "searchMore"
    ELSE "generate"

Take(s, n) == IF Len(s) <= n THEN s ELSE SubSeq(s, 1, n)

HumanMessage(text) == [role |-> "human", content |-> text]
AIMessage(text) == [role |-> "ai", content |-> text]

\* Faulty variant: the history records the reply but not the query.
generateConversationalResponse_replyOnly(state, aiResponse) ==
    [response |-> aiResponse,
     conversationHistory |-> state.conversationHistory \o <<AIMessage(aiResponse)>>,
     personalityContext |-> Take(state.tweets \o state.otherContent, ContextItems)]

generateConversationalResponse(state, aiResponse) ==
    [response |-> aiResponse,
     conversationHistory |->
         state.conversationHistory \o
             <<HumanMessage(state.currentQuery), AIMessage(aiResponse)>>,
     personalityContext |-> Take(state.tweets \o state.otherContent, ContextItems)]

----------------------------------------------------------------------------
(* voiceboard.ts: the Voiceboard object *)

\* constructor(personName)
Voiceboard(personName) ==
    [personName |-> personName,
     initialized |-> FALSE,
     state |-> [personName |-> personName,
                tweets |-> <<>>,
                otherContent |-> <<>>,
                dataSufficient |-> FALSE,
                searchAttempts |-> 0,
                response |-> "",
                conversationHistory |-> <<>>,
                currentQuery |-> "",
                personalityContext |-> <<>>]]

----------------------------------------------------------------------------
(* page.tsx: the state of the chat page *)

\* The names of the clones the page offers, and what a user may type.
Clones == {"Naval"}
TypedNames == {"", " ", "Ada"}
TypedMessages == {"", "hello"}

\* String.prototype.trim, on the strings a user may type.
Trim(s) == IF s = " " THEN "" ELSE s

\* The useState values of Page() at its first render; selectedClone is the
\* clone's name, "" for null.  outbox lists the events the page has emitted
\* on its socket, seen counts the server events its handlers have run for.
Page ==
    [messages |-> <<>>, inputMessage |-> "", selectedClone |-> "", customName |-> "",
     isConnected |-> FALSE, isTyping |-> FALSE, isInitializing |-> FALSE,
     outbox |-> <<>>, seen |-> 0]

----------------------------------------------------------------------------
(* Tasks: the asynchronous calls in flight *)

NoRun == Voiceboard("").state

\* A call that has not awaited anything yet.  pc is the node whose external
\* call the task awaits ("chatGenerate": the generate node of chat()'s own
\* graph), or "returned" / "threw" once the Voiceboard call has settled.
\* steps lists the nodes the task has entered, failed the external call
\* that rejected, ret the value chat() returned, res the HTTP status sent.
NewTask(kind, sid, v, msg) ==
    [kind |-> kind, sid |-> sid, vb |-> v, msg |-> msg, pc |-> "returned",
     run |-> NoRun, steps |-> <<>>, failed |-> "none", ret |-> "", res |-> 0]

Running(i) == tasks[i].pc \notin {"returned", "threw"}
InFlight == {i \in 1..Len(tasks) : Running(i)}

Event(ev, arg) == [ev |-> ev, arg |-> arg]

\* initialize(), not yet initialized: this.app.invoke(this.state) enters
\* the entry point searchTweets with the current state as input.
InvokeWorkflow(t, state) ==
    [t EXCEPT !.pc = "searchTweets", !.run = state,
              !.steps = Append(@, "searchTweets")]

\* Faulty variant: the chat graph is invoked on the query and the history
\* alone, and the other channels take their default values.
InvokeChat_fresh(t, state) ==
    [t EXCEPT !.pc = "chatGenerate",
              !.run = [Voiceboard(state.personName).state EXCEPT
                          !.currentQuery = t.msg,
                          !.conversationHistory = state.conversationHistory],
              !.steps = Append(@, "chatGenerate")]

\* chat(), after the initialized check: this.state.currentQuery = message,
\* then chatApp.invoke(this.state) enters its only node, generate.
InvokeChat(t, state) ==
    [t EXCEPT !.pc = "chatGenerate", !.run = [state EXCEPT !.currentQuery = t.msg],
              !.steps = Append(@, "chatGenerate")]

\* Faulty variant: the clear resets the whole state but the name.
clearConversation_reset(vb) == [vb EXCEPT !.state = Voiceboard(vb.personName).state]

\* clearConversation()
clearConversation(vb) == [vb EXCEPT !.state.conversationHistory = <<>>]

----------------------------------------------------------------------------
(* Calls made on a Voiceboard directly (runVoiceboard, interactiveVoiceboard) *)

\* voiceboard.initialize(), with fewer than lim calls in flight
CallInitialize(v, lim) ==
    /\ Len(tasks) < MaxCalls
    /\ Cardinality(InFlight) < lim
    /\ LET t == NewTask("initialize", "none", v, "")
       IN  tasks' = Append(tasks, IF heap[v].initialized THEN t ELSE InvokeWorkflow(t, heap[v].state))
    /\ UNCHANGED <<heap, voiceboards, emitted, connected, page>>

\* Faulty variant: chat() runs the initialization workflow on every call.
CallChat_reinit(v, message, lim) ==
    /\ Len(tasks) < MaxCalls
    /\ Cardinality(InFlight) < lim
    /\ tasks' = Append(tasks, InvokeWorkflow(NewTask("chat", "none", v, message), heap[v].state))
    /\ UNCHANGED <<heap, voiceboards, emitted, connected, page>>

\* voiceboard.chat(message)
CallChat(v, message, lim) ==
    /\ Len(tasks) < MaxCalls
    /\ Cardinality(InFlight) < lim
    /\ LET t == NewTask("chat", "none", v, message)
       IN  IF heap[v].initialized
           THEN /\ tasks' = Append(tasks, InvokeChat(t, heap[v].state))
                /\ heap' = [heap EXCEPT ![v].state.currentQuery = message]
           ELSE /\ tasks' = Append(tasks, InvokeWorkflow(t, heap[v].state))
                /\ heap' = heap
    /\ UNCHANGED <<voiceboards, emitted, connected, page>>

\* voiceboard.clearConversation()
CallClear(v) ==
    /\ Len(tasks) < MaxCalls
    /\ tasks' = Append(tasks, NewTask("clear", "none", v, ""))
    /\ heap' = [heap EXCEPT ![v] = clearConversation(@)]
    /\ UNCHANGED <<voiceboards, emitted, connected, page>>

\* Faulty variant: the refresh leaves searchAttempts as it was.
refreshPersonality_keep(vb) ==
    [vb EXCEPT !.initialized = FALSE, !.state.tweets = <<>>, !.state.otherContent = <<>>]

\* refreshPersonality(), up to its call of initialize()
refreshPersonality(vb) ==
    [vb EXCEPT !.initialized = FALSE, !.state.tweets = <<>>, !.state.otherContent = <<>>,
               !.state.searchAttempts = 0]

\* voiceboard.refreshPersonality(): the fields are reset and initialize(),
\* which finds initialized false, invokes the workflow on the reset state.
CallRefresh(v, lim) ==
    /\ Len(tasks) < MaxCalls
    /\ Cardinality(InFlight) < lim
    /\ heap' = [heap EXCEPT ![v] = refreshPersonality(@)]
    /\ tasks' = Append(tasks, InvokeWorkflow(NewTask("refresh", "none", v, ""),
                                             refreshPersonality(heap[v]).state))
    /\ UNCHANGED <<voiceboards, emitted, connected, page>>

----------------------------------------------------------------------------
(* The steps of a task *)

\* node searchTweets: tavily.invoke(query) resolved with results
SearchTweetsReturn(i, results) ==
    /\ tasks[i].pc = "searchTweets"
    /\ tasks' = [tasks EXCEPT
                   ![i].run = MergeState(@, searchRecentTweets(@, results)),
                   ![i].pc = "evaluate",
                   ![i].steps = Append(@, "evaluate")]
    /\ UNCHANGED <<heap, voiceboards, emitted, connected, page>>

\* node evaluate, then the conditional edge shouldSearchMore
Evaluate(i) ==
    /\ tasks[i].pc = "evaluate"
    /\ LET state == MergeState(tasks[i].run, evaluateData(tasks[i].run))
           next == shouldSearchMore(state)
       IN  tasks' = [tasks EXCEPT ![i].run = state,
                                  ![i].pc = next,
                                  ![i].steps = Append(@, next)]
    /\ UNCHANGED <<heap, voiceboards, emitted, connected, page>>

\* node searchMore: tavily.invoke(query) resolved with results
SearchMoreReturn(i, results) ==
    /\ tasks[i].pc = "searchMore"
    /\ tasks' = [tasks EXCEPT
                   ![i].run = MergeState(@, searchAdditionalSources(@, results)),
                   ![i].pc = "evaluate",
                   ![i].steps = Append(@, "evaluate")]
    /\ UNCHANGED <<heap, voiceboards, emitted, connected, page>>

\* Faulty variant: an entry that is present is kept.
RegistrySet_keep(sessionId, v) ==
    IF voiceboards[sessionId] # 0 THEN voiceboards ELSE [voiceboards EXCEPT ![sessionId] = v]

\* voiceboards.set(sessionId, voiceboard)
RegistrySet(sessionId, v) == [voiceboards EXCEPT ![sessionId] = v]

\* Faulty variant: voiceboard-ready is not emitted.
ReadyEmits_none(personName) == <<>>

\* Faulty variant: voiceboard-ready is emitted twice.
ReadyEmits_twice(personName) ==
    <<Event("voiceboard-ready", personName), Event("voiceboard-ready", personName)>>

\* socket.emit('voiceboard-ready', { personName })
ReadyEmits(personName) == <<Event("voiceboard-ready", personName)>>

\* Faulty variant: the chat handler's catch block leaves the typing indicator on.
CatchEmits_typingLeftOn(t) ==
    IF t.kind \in {"sockCreate", "sockChat"} THEN <<Event("error", "failed")>> ELSE <<>>

\* What the handler's catch block emits to the socket.
CatchEmits(t) ==
    IF t.kind = "sockCreate" THEN <<Event("error", "failed")>>
    ELSE IF t.kind = "sockChat" THEN <<Event("error", "failed"), Event("typing", "false")>>
    ELSE <<>>

\* Faulty variant: a create stores its Voiceboard although the
\* initialization failed.
Rejected_registers(i, what) ==
    /\ tasks' = [tasks EXCEPT
                   ![i].pc = "threw",
                   ![i].run = NoRun,
                   ![i].failed = what,
                   ![i].res = IF tasks[i].kind \in {"restCreate", "restChat"} THEN 500 ELSE 0]
    /\ emitted' = IF tasks[i].sid \in Conns
                  THEN [emitted EXCEPT ![tasks[i].sid] = @ \o CatchEmits(tasks[i])]
                  ELSE emitted
    /\ voiceboards' = IF tasks[i].kind \in {"sockCreate", "restCreate"}
                      THEN RegistrySet(tasks[i].sid, tasks[i].vb)
                      ELSE voiceboards
    /\ UNCHANGED <<heap, connected, page>>

\* Faulty variant: the Voiceboard keeps what the run had collected when the
\* call rejected.
Rejected_keepsPartial(i, what) ==
    /\ tasks' = [tasks EXCEPT
                   ![i].pc = "threw",
                   ![i].run = NoRun,
                   ![i].failed = what,
                   ![i].res = IF tasks[i].kind \in {"restCreate", "restChat"} THEN 500 ELSE 0]
    /\ emitted' = IF tasks[i].sid \in Conns
                  THEN [emitted EXCEPT ![tasks[i].sid] = @ \o CatchEmits(tasks[i])]
                  ELSE emitted
    /\ heap' = [heap EXCEPT ![tasks[i].vb].state = tasks[i].run]
    /\ UNCHANGED <<voiceboards, connected, page>>

\* Faulty variant: the catch block reports the error to every connection.
Rejected_broadcast(i, what) ==
    /\ tasks' = [tasks EXCEPT
                   ![i].pc = "threw",
                   ![i].run = NoRun,
                   ![i].failed = what,
                   ![i].res = IF tasks[i].kind \in {"restCreate", "restChat"} THEN 500 ELSE 0]
    /\ emitted' = IF tasks[i].sid \in Conns
                  THEN [c \in Conns |-> emitted[c] \o CatchEmits(tasks[i])]
                  ELSE emitted
    /\ UNCHANGED <<heap, voiceboards, connected, page>>

\* The external call the task awaits rejects.  No node catches it: the
\* node, app.invoke, initialize() and chat() reject in turn, this.state and
\* this.initialized are not assigned, and the handler's catch block, if the
\* call came from a handler, reports the error.
Rejected(i, what) ==
    /\ tasks' = [tasks EXCEPT
                   ![i].pc = "threw",
                   ![i].run = NoRun,
                   ![i].failed = what,
                   ![i].res = IF tasks[i].kind \in {"restCreate", "restChat"} THEN 500 ELSE 0]
    /\ emitted' = IF tasks[i].sid \in Conns
                  THEN [emitted EXCEPT ![tasks[i].sid] = @ \o CatchEmits(tasks[i])]
                  ELSE emitted
    /\ UNCHANGED <<heap, voiceboards, connected, page>>

SearchTweetsFail(i) == tasks[i].pc = "searchTweets" /\ Rejected(i, "search")
SearchMoreFail(i) == tasks[i].pc = "searchMore" /\ Rejected(i, "search")
GenerateFail(i) == tasks[i].pc = "generate" /\ Rejected(i, "model")
ChatGenerateFail(i) == tasks[i].pc = "chatGenerate" /\ Rejected(i, "model")

\* node generate of the initialization graph: llm.invoke resolved.  The
\* graph ends; initialize() assigns this.state and this.initialized, and
\* the caller goes on.
GenerateReturn(i, aiResponse) ==
    /\ tasks[i].pc = "generate"
    /\ LET t == tasks[i]
           v == t.vb
           state == MergeState(t.run, generateConversationalResponse(t.run, aiResponse))
           ready == [heap EXCEPT ![v].state = state, ![v].initialized = TRUE]
       IN  CASE t.kind \in {"chat", "sockChat", "restChat"} ->
                  /\ tasks' = [tasks EXCEPT ![i] = InvokeChat(t, state)]
                  /\ heap' = [ready EXCEPT ![v].state.currentQuery = t.msg]
                  /\ UNCHANGED <<voiceboards, emitted>>
             [] t.kind = "sockCreate" ->
                  /\ tasks' = [tasks EXCEPT ![i].pc = "returned", ![i].run = NoRun]
                  /\ heap' = ready
                  /\ voiceboards' = RegistrySet(t.sid, v)
                  /\ emitted' = [emitted EXCEPT ![t.sid] = @ \o ReadyEmits(heap[v].personName)]
             [] t.kind = "restCreate" ->
                  /\ tasks' = [tasks EXCEPT ![i].pc = "returned", ![i].run = NoRun,
                                            ![i].res = 200]
                  /\ heap' = ready
                  /\ voiceboards' = RegistrySet(t.sid, v)
                  /\ UNCHANGED emitted
             [] OTHER ->
                  /\ tasks' = [tasks EXCEPT ![i].pc = "returned", ![i].run = NoRun]
                  /\ heap' = ready
                  /\ UNCHANGED <<voiceboards, emitted>>
    /\ UNCHANGED <<connected, page>>

\* node generate of chat()'s graph: llm.invoke resolved.  chat() assigns
\* this.state and returns this.state.response.
ChatGenerateReturn(i, aiResponse) ==
    /\ tasks[i].pc = "chatGenerate"
    /\ LET t == tasks[i]
           state == MergeState(t.run, generateConversationalResponse(t.run, aiResponse))
       IN  /\ tasks' = [tasks EXCEPT
                          ![i].pc = "returned", ![i].run = NoRun,
                          ![i].ret = state.response,
                          ![i].res = IF t.kind = "restChat" THEN 200 ELSE 0]
           /\ heap' = [heap EXCEPT ![t.vb].state = state]
           /\ emitted' = IF t.kind = "sockChat"
                         THEN [emitted EXCEPT ![t.sid] = @ \o
                                 <<Event("response", state.response), Event("typing", "false")>>]
                         ELSE emitted
    /\ UNCHANGED <<voiceboards, connected, page>>

----------------------------------------------------------------------------
(* One Voiceboard, called as the command line programs call it: one call
   at a time *)

Init ==
    /\ heap = <<Voiceboard("Ada")>>
    /\ voiceboards = [s \in AllIds |-> 0]
    /\ tasks = <<>>
    /\ emitted = [c \in Conns |-> <<>>]
    /\ connected = [c \in Conns |-> FALSE]
    /\ page = Page

Next ==
    \/ CallInitialize(1, 1)
    \/ \E m \in Messages : CallChat(1, m, 1)
    \/ CallClear(1)
    \/ \E i \in 1..Len(tasks) :
        \/ \E r \in InitialPages : SearchTweetsReturn(i, r)
        \/ SearchTweetsFail(i)
        \/ Evaluate(i)
        \/ \E r \in MorePages(tasks[i].run.searchAttempts) : SearchMoreReturn(i, r)
        \/ SearchMoreFail(i)
        \/ \E a \in Replies : GenerateReturn(i, a)
        \/ GenerateFail(i)
        \/ \E a \in Replies : ChatGenerateReturn(i, a)
        \/ ChatGenerateFail(i)

Spec == Init /\ [][Next]_vars

\* A step of task i: the external call it awaits returns or fails, or its
\* evaluate node runs.
TaskStep(i) ==
    /\ i \in 1..Len(tasks)
    /\ \/ \E r \in InitialPages : SearchTweetsReturn(i, r)
       \/ SearchTweetsFail(i)
       \/ Evaluate(i)
       \/ \E r \in MorePages(tasks[i].run.searchAttempts) : SearchMoreReturn(i, r)
       \/ SearchMoreFail(i)
       \/ \E a \in Replies : GenerateReturn(i, a)
       \/ GenerateFail(i)
       \/ \E a \in Replies : ChatGenerateReturn(i, a)
       \/ ChatGenerateFail(i)

(* The same, when every external call eventually returns or fails: the
   event loop runs the continuation of every call that has settled *)
LiveSpec == Init /\ [][Next]_vars /\ \A i \in 1..MaxCalls : WF_vars(TaskStep(i))

(* One Voiceboard, all four of its operations, one call at a time *)
ApiNext ==
    \/ CallInitialize(1, 1)
    \/ \E m \in Messages : CallChat(1, m, 1)
    \/ CallClear(1)
    \/ CallRefresh(1, 1)
    \/ \E i \in 1..Len(tasks) :
        \/ \E r \in InitialPages : SearchTweetsReturn(i, r)
        \/ SearchTweetsFail(i)
        \/ Evaluate(i)
        \/ \E r \in MorePages(tasks[i].run.searchAttempts) : SearchMoreReturn(i, r)
        \/ SearchMoreFail(i)
        \/ \E a \in Replies : GenerateReturn(i, a)
        \/ GenerateFail(i)
        \/ \E a \in Replies : ChatGenerateReturn(i, a)
        \/ ChatGenerateFail(i)

ApiSpec == Init /\ [][ApiNext]_vars

(* One Voiceboard whose caller does not await a call before making the
   next: up to MaxOverlap calls are in flight, and their steps interleave *)
OverlapNext ==
    \/ CallInitialize(1, MaxOverlap)
    \/ \E m \in Messages : CallChat(1, m, MaxOverlap)
    \/ CallClear(1)
    \/ CallRefresh(1, MaxOverlap)
    \/ \E i \in 1..Len(tasks) :
        \/ \E r \in OverlapInitialPages : SearchTweetsReturn(i, r)
        \/ SearchTweetsFail(i)
        \/ Evaluate(i)
        \/ \E r \in OverlapMorePages : SearchMoreReturn(i, r)
        \/ SearchMoreFail(i)
        \/ \E a \in Replies : GenerateReturn(i, a)
        \/ GenerateFail(i)
        \/ \E a \in Replies : ChatGenerateReturn(i, a)
        \/ ChatGenerateFail(i)

OverlapSpec == Init /\ [][OverlapNext]_vars

----------------------------------------------------------------------------
(* server.ts: the socket handlers and the REST endpoints *)

Emit(c, events) == [emitted EXCEPT ![c] = @ \o events]

\* socket.on('create-voiceboard')
SockCreate(c, personName) ==
    /\ connected[c]
    /\ Len(tasks) < MaxRequests
    /\ IF personName = ""
       THEN /\ emitted' = Emit(c, <<Event("error", "Person name is required")>>)
            /\ tasks' = Append(tasks, NewTask("sockCreate", c, 0, ""))
            /\ heap' = heap
       ELSE /\ Len(heap) < MaxBoards
            /\ heap' = Append(heap, Voiceboard(personName))
            /\ emitted' = Emit(c, <<Event("status", "Initializing voiceboard...")>>)
            /\ tasks' = Append(tasks,
                   InvokeWorkflow(NewTask("sockCreate", c, Len(heap) + 1, ""),
                                  Voiceboard(personName).state))
    /\ UNCHANGED <<voiceboards, connected, page>>

\* The body of Voiceboard.chat up to its first await, for a handler's task t.
ChatCall(t) ==
    LET v == t.vb
    IN  IF heap[v].initialized
        THEN /\ tasks' = Append(tasks, InvokeChat(t, heap[v].state))
             /\ heap' = [heap EXCEPT ![v].state.currentQuery = t.msg]
        ELSE /\ tasks' = Append(tasks, InvokeWorkflow(t, heap[v].state))
             /\ heap' = heap

\* socket.on('chat')
SockChat(c, message) ==
    /\ connected[c]
    /\ Len(tasks) < MaxRequests
    /\ IF message = ""
       THEN /\ emitted' = Emit(c, <<Event("error", "Message cannot be empty")>>)
            /\ tasks' = Append(tasks, NewTask("sockChat", c, 0, message))
            /\ heap' = heap
       ELSE IF voiceboards[c] = 0
       THEN /\ emitted' = Emit(c, <<Event("error", "Please create a voiceboard first")>>)
            /\ tasks' = Append(tasks, NewTask("sockChat", c, 0, message))
            /\ heap' = heap
       ELSE /\ emitted' = Emit(c, <<Event("typing", "true")>>)
            /\ ChatCall(NewTask("sockChat", c, voiceboards[c], message))
    /\ UNCHANGED <<voiceboards, connected, page>>

\* Faulty variant: conversation-cleared is emitted whether or not the
\* connection has a session.
SockClear_always(c) ==
    /\ connected[c]
    /\ Len(tasks) < MaxRequests
    /\ tasks' = Append(tasks, NewTask("sockClear", c, voiceboards[c], ""))
    /\ heap' = IF voiceboards[c] # 0
               THEN [heap EXCEPT ![voiceboards[c]] = clearConversation(@)]
               ELSE heap
    /\ emitted' = Emit(c, <<Event("conversation-cleared", "")>>)
    /\ UNCHANGED <<voiceboards, connected, page>>

\* socket.on('clear-conversation')
SockClear(c) ==
    /\ connected[c]
    /\ Len(tasks) < MaxRequests
    /\ tasks' = Append(tasks, NewTask("sockClear", c, voiceboards[c], ""))
    /\ IF voiceboards[c] # 0
       THEN /\ heap' = [heap EXCEPT ![voiceboards[c]] = clearConversation(@)]
            /\ emitted' = Emit(c, <<Event("conversation-cleared", "")>>)
       ELSE /\ heap' = heap
            /\ emitted' = Emit(c, <<Event("error", "No active voiceboard found")>>)
    /\ UNCHANGED <<voiceboards, connected, page>>

\* Faulty variant: a disconnect empties the registry.
Disconnect_clearAll(c) ==
    /\ connected[c]
    /\ connected' = [connected EXCEPT ![c] = FALSE]
    /\ voiceboards' = [s \in AllIds |-> 0]
    /\ UNCHANGED <<heap, tasks, emitted, page>>

\* socket.on('disconnect')
Disconnect(c) ==
    /\ connected[c]
    /\ connected' = [connected EXCEPT ![c] = FALSE]
    /\ voiceboards' = [voiceboards EXCEPT ![c] = 0]
    /\ UNCHANGED <<heap, tasks, emitted, page>>

\* Faulty variant: the endpoint requires personName but not sessionId.
RestCreate_nameOnly(sessionId, personName) ==
    /\ Len(tasks) < MaxRequests
    /\ IF personName = ""
       THEN /\ tasks' = Append(tasks, [NewTask("restCreate", sessionId, 0, "") EXCEPT !.res = 400])
            /\ heap' = heap
       ELSE /\ Len(heap) < MaxBoards
            /\ heap' = Append(heap, Voiceboard(personName))
            /\ tasks' = Append(tasks,
                   InvokeWorkflow(NewTask("restCreate", sessionId, Len(heap) + 1, ""),
                                  Voiceboard(personName).state))
    /\ UNCHANGED <<voiceboards, emitted, connected, page>>

\* POST /api/voiceboard/create
RestCreate(sessionId, personName) ==
    /\ Len(tasks) < MaxRequests
    /\ IF personName = "" \/ sessionId = ""
       THEN /\ tasks' = Append(tasks, [NewTask("restCreate", sessionId, 0, "") EXCEPT !.res = 400])
            /\ heap' = heap
       ELSE /\ Len(heap) < MaxBoards
            /\ heap' = Append(heap, Voiceboard(personName))
            /\ tasks' = Append(tasks,
                   InvokeWorkflow(NewTask("restCreate", sessionId, Len(heap) + 1, ""),
                                  Voiceboard(personName).state))
    /\ UNCHANGED <<voiceboards, emitted, connected, page>>

\* POST /api/voiceboard/chat
RestChat(sessionId, message) ==
    /\ Len(tasks) < MaxRequests
    /\ IF sessionId = "" \/ message = ""
       THEN /\ tasks' = Append(tasks, [NewTask("restChat", sessionId, 0, message) EXCEPT !.res = 400])
            /\ heap' = heap
       ELSE IF voiceboards[sessionId] = 0
       THEN /\ tasks' = Append(tasks, [NewTask("restChat", sessionId, 0, message) EXCEPT !.res = 404])
            /\ heap' = heap
       ELSE ChatCall(NewTask("restChat", sessionId, voiceboards[sessionId], message))
    /\ UNCHANGED <<voiceboards, emitted, connected, page>>

\* Faulty variant: deleting a session that is absent removes the others.
RestDelete_others(sessionId) ==
    /\ Len(tasks) < MaxRequests
    /\ tasks' = Append(tasks, [NewTask("restDelete", sessionId, voiceboards[sessionId], "")
                                 EXCEPT !.res = IF voiceboards[sessionId] # 0 THEN 200 ELSE 404])
    /\ voiceboards' = IF voiceboards[sessionId] # 0
                      THEN [voiceboards EXCEPT ![sessionId] = 0]
                      ELSE [s \in AllIds |-> 0]
    /\ UNCHANGED <<heap, emitted, connected, page>>

\* DELETE /api/voiceboard/:sessionId
RestDelete(sessionId) ==
    /\ Len(tasks) < MaxRequests
    /\ tasks' = Append(tasks, [NewTask("restDelete", sessionId, voiceboards[sessionId], "")
                                 EXCEPT !.res = IF voiceboards[sessionId] # 0 THEN 200 ELSE 404])
    /\ voiceboards' = [voiceboards EXCEPT ![sessionId] = 0]
    /\ UNCHANGED <<heap, emitted, connected, page>>

\* The steps of the tasks of the server, with the result pages its runs draw from.
ServerStep ==
    \E i \in 1..Len(tasks) :
        \/ \E r \in ServerInitialPages : SearchTweetsReturn(i, r)
        \/ SearchTweetsFail(i)
        \/ Evaluate(i)
        \/ \E a \in ServerReplies : GenerateReturn(i, a)
        \/ GenerateFail(i)
        \/ \E a \in ServerReplies : ChatGenerateReturn(i, a)
        \/ ChatGenerateFail(i)

ServerInit ==
    /\ heap = <<>>
    /\ voiceboards = [s \in AllIds |-> 0]
    /\ tasks = <<>>
    /\ emitted = [c \in Conns |-> <<>>]
    /\ connected = [c \in Conns |-> TRUE]
    /\ page = Page

(* The socket gateway alone: every interleaving of the socket events of the
   connections *)
SocketNext ==
    \/ \E c \in Conns, p \in Persons \cup {""} : SockCreate(c, p)
    \/ \E c \in Conns, m \in Messages \cup {""} : SockChat(c, m)
    \/ \E c \in Conns : SockClear(c)
    \/ \E c \in Conns : Disconnect(c)
    \/ ServerStep

SocketSpec == ServerInit /\ [][SocketNext]_vars

\* A step of task i of the server: the external call it awaits returns or
\* fails, or its evaluate node runs.
ServerTaskStep(i) ==
    /\ i \in 1..Len(tasks)
    /\ \/ \E r \in ServerInitialPages : SearchTweetsReturn(i, r)
       \/ SearchTweetsFail(i)
       \/ Evaluate(i)
       \/ \E a \in ServerReplies : GenerateReturn(i, a)
       \/ GenerateFail(i)
       \/ \E a \in ServerReplies : ChatGenerateReturn(i, a)
       \/ ChatGenerateFail(i)

(* The socket gateway when every external call eventually returns or fails *)
SocketLiveSpec ==
    ServerInit /\ [][SocketNext]_vars /\ \A i \in 1..MaxRequests : WF_vars(ServerTaskStep(i))

(* The socket gateway and the REST endpoints, over one registry.  A REST
   client names the session itself, a connection's id included. *)
ServerNext ==
    \/ \E c \in Conns, p \in Persons \cup {""} : SockCreate(c, p)
    \/ \E c \in Conns, m \in Messages \cup {""} : SockChat(c, m)
    \/ \E c \in Conns : SockClear(c)
    \/ \E c \in Conns : Disconnect(c)
    \/ \E s \in SessionIds \cup {""}, p \in Persons \cup {""} : RestCreate(s, p)
    \/ \E s \in SessionIds \cup {""}, m \in Messages \cup {""} : RestChat(s, m)
    \/ \E s \in SessionIds : RestDelete(s)
    \/ ServerStep

ServerSpec == ServerInit /\ [][ServerNext]_vars

----------------------------------------------------------------------------
(* page.tsx: the chat page, on the connection PageConn of the gateway *)

PageConn == "c1"
OtherConn == "c2"

Message(type, content) == [type |-> type, content |-> content]

\* const shouldShowChat = selectedClone || customName.trim()
ShouldShowChat == page.selectedClone # "" \/ Trim(page.customName) # ""

\* customName.trim() || selectedClone?.name
PersonName == IF Trim(page.customName) # "" THEN Trim(page.customName) ELSE page.selectedClone

handleCreateVoiceboard ==
    IF PersonName = "" THEN page
    ELSE [page EXCEPT !.isInitializing = TRUE,
                      !.outbox = Append(@, Event("create-voiceboard", PersonName))]

handleSendMessage ==
    IF Trim(page.inputMessage) = "" \/ page.isTyping \/ page.isInitializing THEN page
    ELSE [page EXCEPT !.messages = Append(@, Message("user", page.inputMessage)),
                      !.outbox = Append(@, Event("chat", page.inputMessage)),
                      !.inputMessage = ""]

handleClearConversation ==
    [page EXCEPT !.outbox = Append(@, Event("clear-conversation", "")),
                 !.messages = <<Message("system", "Conversation cleared")>>]

\* The buttons of the page besides the clone cards: Start Chatting, Back,
\* Clear and Send.  The selection panel is rendered when shouldShowChat is
\* falsy and the chat view when it is truthy.
Buttons == {"start", "back", "clear", "send"}
Visible(b) == IF b = "start" THEN ~ShouldShowChat ELSE ShouldShowChat
Disabled(b) ==
    CASE b = "start" ->
            ~page.isConnected \/ (page.selectedClone = "" /\ Trim(page.customName) = "")
      [] b = "send" -> Trim(page.inputMessage) = "" \/ page.isTyping \/ page.isInitializing
      [] OTHER -> FALSE

\* The user clicks a button that is rendered and not disabled; the browser
\* runs its onClick.
Click(b) ==
    /\ Visible(b) /\ ~Disabled(b)
    /\ page' = CASE b = "start" -> handleCreateVoiceboard
                 [] b = "back" -> [page EXCEPT !.selectedClone = "", !.customName = ""]
                 [] b = "clear" -> handleClearConversation
                 [] OTHER -> handleSendMessage
    /\ Len(page'.outbox) <= MaxRequests
    /\ UNCHANGED <<heap, voiceboards, tasks, emitted, connected>>

\* The user clicks a clone card of the selection panel.
PickClone(n) ==
    /\ ~ShouldShowChat
    /\ page' = [page EXCEPT !.selectedClone = n]
    /\ UNCHANGED <<heap, voiceboards, tasks, emitted, connected>>

\* The user edits the custom name input of the selection panel.
TypeName(s) ==
    /\ ~ShouldShowChat
    /\ ~page.isInitializing
    /\ s # page.customName
    /\ page' = [page EXCEPT !.customName = s]
    /\ UNCHANGED <<heap, voiceboards, tasks, emitted, connected>>

\* The user edits the message box of the chat view.
TypeMessage(s) ==
    /\ ShouldShowChat
    /\ ~(page.isInitializing \/ page.isTyping)
    /\ s # page.inputMessage
    /\ page' = [page EXCEPT !.inputMessage = s]
    /\ UNCHANGED <<heap, voiceboards, tasks, emitted, connected>>

\* handleKeyPress: Enter in the message box
PressEnter ==
    /\ ShouldShowChat
    /\ ~(page.isInitializing \/ page.isTyping)
    /\ page' = handleSendMessage
    /\ Len(page'.outbox) <= MaxRequests
    /\ UNCHANGED <<heap, voiceboards, tasks, emitted, connected>>

\* socket.on('connect')
PageConnect ==
    /\ connected[PageConn]
    /\ ~page.isConnected
    /\ page' = [page EXCEPT
                  !.isConnected = TRUE,
                  !.messages = <<Message("system", "Connected to Clone Council!")>>]
    /\ UNCHANGED <<heap, voiceboards, tasks, emitted, connected>>

\* socket.on('disconnect')
PageDisconnect ==
    /\ ~connected[PageConn]
    /\ page.isConnected
    /\ page' = [page EXCEPT
                  !.isConnected = FALSE,
                  !.messages = Append(@, Message("error", "Connection lost."))]
    /\ UNCHANGED <<heap, voiceboards, tasks, emitted, connected>>

\* The handlers the page registers on its socket: voiceboard-ready,
\* response, typing, status and error.  No handler is registered for
\* conversation-cleared.
OnEvent(e) ==
    CASE e.ev = "voiceboard-ready" ->
            [page EXCEPT !.isInitializing = FALSE,
                         !.messages = Append(@, Message("system", e.arg))]
      [] e.ev = "response" ->
            [page EXCEPT !.messages = Append(@, Message("ai", e.arg)), !.isTyping = FALSE]
      [] e.ev = "typing" -> [page EXCEPT !.isTyping = (e.arg = "true")]
      [] e.ev = "status" -> [page EXCEPT !.messages = Append(@, Message("system", e.arg))]
      [] e.ev = "error" ->
            [page EXCEPT !.messages = Append(@, Message("error", e.arg)),
                         !.isTyping = FALSE, !.isInitializing = FALSE]
      [] OTHER -> page

\* The next event the server has emitted to the page's socket arrives.
PageReceive ==
    /\ connected[PageConn]
    /\ page.isConnected
    /\ page.seen < Len(emitted[PageConn])
    /\ page' = [OnEvent(emitted[PageConn][page.seen + 1]) EXCEPT !.seen = page.seen + 1]
    /\ UNCHANGED <<heap, voiceboards, tasks, emitted, connected>>

\* The events of the page's socket the gateway has handled.
Handled ==
    Cardinality({i \in 1..Len(tasks) :
                    tasks[i].sid = PageConn
                    /\ tasks[i].kind \in {"sockCreate", "sockChat", "sockClear"}})

\* The gateway handles the next event the page has emitted.
ServePage ==
    /\ Handled < Len(page.outbox)
    /\ LET e == page.outbox[Handled + 1]
       IN  CASE e.ev = "create-voiceboard" -> SockCreate(PageConn, e.arg)
             [] e.ev = "chat" -> SockChat(PageConn, e.arg)
             [] OTHER -> SockClear(PageConn)

\* The client of the other connection creates its session, once.
OtherCreate(p) ==
    /\ \A i \in 1..Len(tasks) : tasks[i].sid # OtherConn
    /\ SockCreate(OtherConn, p)

\* The client of the other connection chats on its session, once.
OtherChat(m) ==
    /\ voiceboards[OtherConn] # 0
    /\ \A i \in 1..Len(tasks) : ~(tasks[i].sid = OtherConn /\ tasks[i].kind = "sockChat")
    /\ SockChat(OtherConn, m)

(* The page on one connection, another client on the other, and the gateway *)
UiNext ==
    \/ PageConnect
    \/ PageDisconnect
    \/ PageReceive
    \/ \E n \in Clones : PickClone(n)
    \/ \E s \in TypedNames : TypeName(s)
    \/ \E s \in TypedMessages : TypeMessage(s)
    \/ PressEnter
    \/ \E b \in Buttons : Click(b)
    \/ ServePage
    \/ \E p \in Persons : OtherCreate(p)
    \/ \E m \in Messages : OtherChat(m)
    \/ Disconnect(PageConn)
    \/ ServerStep

UiSpec == ServerInit /\ [][UiNext]_vars

(* The same, with a user who clicks Start Chatting whenever the page offers
   it, and a socket whose connect event arrives *)
UiLiveSpec ==
    ServerInit /\ [][UiNext]_vars /\ WF_vars(PageConnect) /\ SF_vars(Click("start"))

----------------------------------------------------------------------------
(* Properties *)

TaskIds == 1..Len(tasks)
Count(seq, x) == Cardinality({k \in 1..Len(seq) : seq[k] = x})
\* The search provider calls a task has issued: one per search node entered.
SearchCalls(t) == Count(t.steps, "searchTweets") + Count(t.steps, "searchMore")
\* The task has run evaluate and taken the edge out of it.
Evaluated(t) == t.pc \in {"searchMore", "generate"}
RecentIn(seq) ==
    \E k \in 1..Len(seq) : CurrentYear \in seq[k].years \/ (CurrentYear - 1) \in seq[k].years

\* C1, as amended: the evaluate step sets the sufficiency flag to true if and
\* only if tweets and otherContent hold at least 15 snippets together and at
\* least one of the tweets (the results of the initial search) contains the
\* current or the previous calendar year.
C1_SufficientIffCountAndRecentTweet ==
    \A i \in TaskIds :
        Evaluated(tasks[i]) =>
            (tasks[i].run.dataSufficient <=>
                (Len(tasks[i].run.tweets) + Len(tasks[i].run.otherContent) >= 15
                 /\ RecentIn(tasks[i].run.tweets)))

\* C1 as stated: ... at least one collected snippet, of either kind, contains
\* the current or the previous calendar year.
C1_SufficientIffCountAndRecentSnippet ==
    \A i \in TaskIds :
        Evaluated(tasks[i]) =>
            (tasks[i].run.dataSufficient <=>
                (Len(tasks[i].run.tweets) + Len(tasks[i].run.otherContent) >= 15
                 /\ RecentIn(tasks[i].run.tweets \o tasks[i].run.otherContent)))

\* Evaluate has found exactly 15 snippets, a recent tweet among them, sufficient.
C1_Witness ==
    \E i \in TaskIds :
        /\ tasks[i].pc = "generate"
        /\ Len(tasks[i].run.tweets) + Len(tasks[i].run.otherContent) = 15
        /\ Len(tasks[i].run.otherContent) > 0
        /\ tasks[i].run.dataSufficient

\* C2: the step after evaluate is generate when the sufficiency flag is true,
\* otherwise searchMore when searchAttempts < 4, otherwise generate; the step
\* after searchTweets and the step after searchMore is evaluate (a search
\* step whose provider call rejects ends the run and has no next step).
C2_Routing ==
    [][\A i \in TaskIds :
          /\ (tasks[i].pc = "evaluate" /\ tasks'[i] # tasks[i]) =>
                tasks'[i].pc = IF tasks'[i].run.dataSufficient THEN "generate"
                               ELSE IF tasks'[i].run.searchAttempts < 4 THEN "searchMore"
                               ELSE "generate"
          /\ (tasks[i].pc \in {"searchTweets", "searchMore"} /\ tasks'[i] # tasks[i]) =>
                tasks'[i].pc \in {"evaluate", "threw"}]_vars

\* Evaluate has sent an insufficient run with 3 attempts to searchMore.
C2_Witness ==
    \E i \in TaskIds :
        /\ tasks[i].pc = "searchMore"
        /\ ~tasks[i].run.dataSufficient
        /\ tasks[i].run.searchAttempts = 3

\* C3: a run in which evaluate returns false every time performs at most 4
\* searchMore steps, is never in searchMore with searchAttempts at 4 or more,
\* and enters generate with searchAttempts = 4.
C3_ForcedGenerateAtFour ==
    \A i \in TaskIds :
        /\ Count(tasks[i].steps, "searchMore") <= 4
        /\ tasks[i].pc = "searchMore" => tasks[i].run.searchAttempts < 4
        /\ (tasks[i].pc = "generate" /\ ~tasks[i].run.dataSufficient) =>
              tasks[i].run.searchAttempts = 4

\* A run whose evaluate was false every time has entered generate.
C3_Witness ==
    \E i \in TaskIds :
        /\ tasks[i].pc = "generate"
        /\ ~tasks[i].run.dataSufficient
        /\ tasks[i].run.searchAttempts = 4
        /\ Count(tasks[i].steps, "evaluate") = 4

\* C4: one initialization issues at most 5 calls to the search provider.
C4_AtMostFiveSearchCalls ==
    \A i \in TaskIds : SearchCalls(tasks[i]) <= 5

\* A run has completed after its initial search and 3 follow-up searches.
C4_Witness ==
    \E i \in TaskIds :
        /\ tasks[i].pc = "returned"
        /\ tasks[i].kind = "initialize"
        /\ SearchCalls(tasks[i]) = 4

\* C7 as stated: when the language-model call throws during a chat turn,
\* chat() returns a non-empty string and the history holds the user's query.
C7_ChatAnswersWhenModelFails ==
    \A i \in TaskIds :
        (tasks[i].kind = "chat" /\ tasks[i].failed = "model"
            /\ tasks[i].steps[Len(tasks[i].steps)] = "chatGenerate") =>
            /\ tasks[i].pc = "returned"
            /\ tasks[i].ret # ""
            /\ \E k \in 1..Len(heap[tasks[i].vb].state.conversationHistory) :
                  heap[tasks[i].vb].state.conversationHistory[k] = HumanMessage(tasks[i].msg)

\* C8 as stated: when the provider call of a search step fails, the workflow
\* goes on to evaluate with the snippets collected so far and searchAttempts
\* incremented by 1.
C8_SearchFailureSwallowed ==
    [][\A i \in TaskIds :
          (tasks[i].failed = "none" /\ tasks'[i].failed = "search") =>
              /\ tasks'[i].pc = "evaluate"
              /\ tasks'[i].run.searchAttempts = tasks[i].run.searchAttempts + 1
              /\ tasks'[i].run.tweets \o tasks'[i].run.otherContent =
                    tasks[i].run.tweets \o tasks[i].run.otherContent]_vars

\* The initial page holds at least 15 snippets, one mentioning the current year.
GoodInitialPage(tweets) ==
    Len(tweets) >= 15 /\ \E k \in 1..Len(tweets) : CurrentYear \in tweets[k].years

\* C9: when the initial search returns at least 15 snippets of which one
\* mentions the current year, the first evaluate is sufficient, the run makes
\* exactly one search call and no searchMore step, generate is invoked
\* exactly once, and the run ends with searchAttempts = 1.
C9_GoodInitialPageOneSearch ==
    \A i \in TaskIds :
        LET t == tasks[i]
        IN  /\ (t.pc \in {"evaluate", "generate"} /\ GoodInitialPage(t.run.tweets)) =>
                  /\ t.run.searchAttempts = 1
                  /\ SearchCalls(t) = 1
                  /\ t.pc = "generate" =>
                        (t.run.dataSufficient /\ t.steps = <<"searchTweets", "evaluate", "generate">>)
            /\ t.pc # "searchMore" \/ ~GoodInitialPage(t.run.tweets)
            /\ (t.kind = "initialize" /\ t.pc = "returned" /\ t.steps # <<>>
                  /\ GoodInitialPage(heap[t.vb].state.tweets)) =>
                  /\ t.steps = <<"searchTweets", "evaluate", "generate">>
                  /\ heap[t.vb].state.searchAttempts = 1
                  /\ heap[t.vb].state.dataSufficient

\* initialize() has returned after a run on a page of 20 current-year snippets.
C9_Witness ==
    \E i \in TaskIds :
        /\ tasks[i].kind = "initialize"
        /\ tasks[i].pc = "returned"
        /\ tasks[i].steps = <<"searchTweets", "evaluate", "generate">>
        /\ heap[tasks[i].vb].initialized
        /\ Len(heap[tasks[i].vb].state.tweets) = 20

IsCreate(t) == t.kind \in {"sockCreate", "restCreate"}

\* C5, as amended: a create under a session id that is present in the
\* registry does not fail: when the initialization of the new Voiceboard
\* completes, the new Voiceboard replaces the entry, and the Voiceboard that
\* was registered is itself not modified; the registry and the registered
\* Voiceboard are left as they were only when the initialization throws.
C5_DuplicateCreateReplaces ==
    [][\A i \in TaskIds :
          LET t == tasks[i]
              old == voiceboards[t.sid]
          IN  (IsCreate(t) /\ Running(i) /\ tasks'[i].pc \in {"returned", "threw"} /\ old # 0) =>
                  /\ heap'[old] = heap[old]
                  /\ tasks'[i].pc = "returned" =>
                        (voiceboards'[t.sid] = t.vb /\ t.vb # old /\ heap'[t.vb].initialized)
                  /\ tasks'[i].pc = "threw" => voiceboards' = voiceboards]_vars

\* C5 as stated: a create under a session id that is present in the registry
\* fails and leaves the session's Voiceboard as it was.
C5_DuplicateCreateFails ==
    [][\A i \in TaskIds :
          LET t == tasks[i]
          IN  (IsCreate(t) /\ Running(i) /\ tasks'[i].pc \in {"returned", "threw"}
                 /\ voiceboards[t.sid] # 0) =>
                  /\ tasks'[i].pc = "threw"
                  /\ voiceboards'[t.sid] = voiceboards[t.sid]]_vars

\* Two creates under one session id have both completed, nothing was removed,
\* and the registry holds the Voiceboard of the second, not that of the first.
C5_Witness ==
    \E i, j \in TaskIds :
        /\ j < i
        /\ IsCreate(tasks[i]) /\ IsCreate(tasks[j])
        /\ tasks[i].sid = tasks[j].sid
        /\ tasks[i].pc = "returned" /\ tasks[j].pc = "returned"
        /\ tasks[j].vb # 0 /\ tasks[i].vb # tasks[j].vb
        /\ voiceboards[tasks[i].sid] = tasks[i].vb
        /\ heap[tasks[j].vb].initialized
        /\ \A c \in Conns : connected[c]
        /\ \A k \in TaskIds : tasks[k].kind # "restDelete"

\* C6: clear-conversation on a connection that has a session empties the
\* conversation history of its Voiceboard and leaves personName, tweets,
\* otherContent, searchAttempts, dataSufficient and the initialized flag as
\* they were; the registry is unchanged.
C6_ClearKeepsPersonality ==
    [][(/\ Len(tasks') = Len(tasks) + 1
        /\ tasks'[Len(tasks')].kind = "sockClear"
        /\ tasks'[Len(tasks')].vb # 0) =>
          LET v == tasks'[Len(tasks')].vb
          IN  /\ heap'[v].state.conversationHistory = <<>>
              /\ heap'[v].personName = heap[v].personName
              /\ heap'[v].initialized = heap[v].initialized
              /\ heap'[v].state.personName = heap[v].state.personName
              /\ heap'[v].state.tweets = heap[v].state.tweets
              /\ heap'[v].state.otherContent = heap[v].state.otherContent
              /\ heap'[v].state.searchAttempts = heap[v].state.searchAttempts
              /\ heap'[v].state.dataSufficient = heap[v].state.dataSufficient
              /\ voiceboards' = voiceboards
              /\ voiceboards'[tasks'[Len(tasks')].sid] = v]_vars

\* The last request handled was a clear-conversation of a session whose
\* Voiceboard holds snippets and, now, no history.
C6_Witness ==
    /\ tasks # <<>>
    /\ LET t == tasks[Len(tasks)]
       IN  /\ t.kind = "sockClear"
           /\ t.vb # 0
           /\ heap[t.vb].state.conversationHistory = <<>>
           /\ heap[t.vb].state.tweets # <<>>
           /\ heap[t.vb].state.searchAttempts = 1
           /\ heap[t.vb].initialized

\* C10: on every connection, each response event is preceded by a
\* voiceboard-ready event of the same connection.
C10_ReadyBeforeResponse ==
    \A c \in Conns :
        \A k \in 1..Len(emitted[c]) :
            emitted[c][k].ev = "response" =>
                \E j \in 1..(k - 1) : emitted[c][j].ev = "voiceboard-ready"

\* A response has been emitted to a connection.
C10_Witness ==
    \E c \in Conns :
        \E k \in 1..Len(emitted[c]) : emitted[c][k].ev = "response"

\* C11: a chat() called on a Voiceboard that is not initialized enters the
\* initialization workflow, once, and goes from its generate node to the chat
\* generation; a chat() called after an earlier chat() on the Voiceboard has
\* returned enters the chat generation only, and no chat() enters the
\* initialization workflow a second time.
C11_InitOnceThenGenerate ==
    [][/\ (Len(tasks') = Len(tasks) + 1 /\ tasks'[Len(tasks')].kind = "chat") =>
            LET t == tasks'[Len(tasks')]
            IN  /\ t.steps = IF heap[t.vb].initialized THEN <<"chatGenerate">>
                                                       ELSE <<"searchTweets">>
                /\ (\E j \in TaskIds : /\ tasks[j].kind = "chat"
                                       /\ tasks[j].vb = t.vb
                                       /\ tasks[j].pc = "returned") =>
                        t.steps = <<"chatGenerate">>
       /\ \A i \in TaskIds :
            (tasks[i].kind = "chat" /\ tasks'[i].steps # tasks[i].steps) =>
                LET n == Len(tasks'[i].steps)
                    entered == tasks'[i].steps[n]
                IN  /\ entered # "searchTweets"
                    /\ entered = "chatGenerate" <=> tasks[i].steps[n - 1] = "generate"
                    /\ Count(tasks'[i].steps, "generate") <= 1
                    /\ Count(tasks'[i].steps, "chatGenerate") <= 1]_vars

\* A first chat() has run the workflow and the chat generation and returned,
\* and a second chat() has returned after the chat generation alone.
C11_Witness ==
    /\ Len(tasks) = 2
    /\ tasks[1].kind = "chat" /\ tasks[1].pc = "returned"
    /\ tasks[1].steps = <<"searchTweets", "evaluate", "generate", "chatGenerate">>
    /\ tasks[2].kind = "chat" /\ tasks[2].pc = "returned"
    /\ tasks[2].steps = <<"chatGenerate">>

\* The history h is a sequence of (user entry, persona reply) pairs.
Alternates(h) ==
    /\ Len(h) % 2 = 0
    /\ \A k \in 1..Len(h) : h[k].role = IF k % 2 = 1 THEN "human" ELSE "ai"

\* C12: in every state the conversation history of a Voiceboard alternates
\* user entries and persona replies, starting with a user entry and ending
\* with a reply, whatever initialize, chat, clearConversation and
\* refreshPersonality calls were made and whether or not they overlapped; so
\* does the history of every graph run in flight.
C12_HistoryAlternates ==
    /\ \A v \in 1..Len(heap) : Alternates(heap[v].state.conversationHistory)
    /\ \A i \in TaskIds : Alternates(tasks[i].run.conversationHistory)

\* Two chat() calls that both ran the initialization workflow, so the second
\* was made while the first was in flight, have returned, and the history
\* holds the pair of an initialization and the pair of a chat turn.
C12_Witness ==
    /\ Len(tasks) = 2
    /\ \A i \in {1, 2} : /\ tasks[i].kind = "chat"
                          /\ tasks[i].pc = "returned"
                          /\ tasks[i].steps[1] = "searchTweets"
    /\ Len(heap[1].state.conversationHistory) = 4

\* C13: in every state the searchAttempts of a Voiceboard, and of every graph
\* run in flight, is between 0 and 4, whatever initialize, chat,
\* clearConversation and refreshPersonality calls were made one after the
\* other.
C13_AttemptsBetweenZeroAndFour ==
    /\ \A v \in 1..Len(heap) :
          heap[v].state.searchAttempts >= 0 /\ heap[v].state.searchAttempts <= 4
    /\ \A i \in TaskIds :
          tasks[i].run.searchAttempts >= 0 /\ tasks[i].run.searchAttempts <= 4

\* A refreshPersonality() made on a Voiceboard that held 4 attempts has
\* returned, and the Voiceboard holds 4 attempts again.
C13_Witness ==
    /\ Len(tasks) = 2
    /\ Count(tasks[1].steps, "searchMore") = 3
    /\ tasks[2].kind = "refresh" /\ tasks[2].pc = "returned"
    /\ heap[1].state.searchAttempts = 4

\* The step is a call of refreshPersonality() on Voiceboard v.
RefreshCalled(v) ==
    /\ Len(tasks') = Len(tasks) + 1
    /\ tasks'[Len(tasks')].kind = "refresh"
    /\ tasks'[Len(tasks')].vb = v

\* C14, as amended: searchAttempts never becomes smaller in the course of a
\* workflow run, nor by initialize, chat or clearConversation; a call of
\* refreshPersonality, and nothing else, makes it smaller: it resets it to 0
\* before the workflow runs again.
C14_OnlyRefreshResetsAttempts ==
    [][/\ \A v \in 1..Len(heap) :
            heap'[v].state.searchAttempts < heap[v].state.searchAttempts =>
                (RefreshCalled(v) /\ heap'[v].state.searchAttempts = 0)
       /\ \A i \in TaskIds :
            (Running(i) /\ tasks'[i].pc \notin {"returned", "threw"}) =>
                tasks'[i].run.searchAttempts >= tasks[i].run.searchAttempts]_vars

\* C14 as stated: no operation of the Voiceboard makes searchAttempts smaller.
C14_AttemptsNeverDecrease ==
    [][\A v \in 1..Len(heap) :
          heap'[v].state.searchAttempts >= heap[v].state.searchAttempts]_vars

\* refreshPersonality() has just been called on a Voiceboard whose
\* initialization had made 4 search attempts: the counter is back at 0.
C14_Witness ==
    /\ Len(tasks) = 2
    /\ tasks[1].pc = "returned"
    /\ Count(tasks[1].steps, "searchMore") = 3
    /\ tasks[2].kind = "refresh" /\ tasks[2].steps = <<"searchTweets">>
    /\ tasks[2].pc = "searchTweets"
    /\ heap[1].state.searchAttempts = 0
    /\ ~heap[1].initialized

IsPrefix(a, b) == Len(a) <= Len(b) /\ SubSeq(b, 1, Len(a)) = a
\* The collected material of a state: tweets followed by otherContent.
Material(state) == state.tweets \o state.otherContent
InWorkflow(t) == t.pc \in {"searchTweets", "evaluate", "searchMore", "generate"}

\* C15: within a workflow run every step that completes leaves the material
\* collected before it as a prefix of the material after it: searchMore
\* keeps tweets and extends otherContent at its end, evaluate and generate
\* leave tweets and otherContent as they were, and the state that
\* initialize() assigns at the end of the run holds the material of the run.
C15_MaterialNeverShrinks ==
    [][\A i \in TaskIds :
          LET t == tasks[i]
              after == IF tasks'[i].pc = "returned" THEN heap'[t.vb].state ELSE tasks'[i].run
          IN  (InWorkflow(t) /\ tasks'[i] # t /\ tasks'[i].pc # "threw") =>
                  /\ IsPrefix(Material(t.run), Material(after))
                  /\ t.pc = "searchMore" =>
                        /\ after.tweets = t.run.tweets
                        /\ IsPrefix(t.run.otherContent, after.otherContent)
                  /\ t.pc \in {"evaluate", "generate"} =>
                        /\ after.tweets = t.run.tweets
                        /\ after.otherContent = t.run.otherContent]_vars

\* A run has completed with tweets and the results of two follow-up
\* searches, in the order they were collected.
C15_Witness ==
    \E i \in TaskIds :
        /\ tasks[i].pc = "returned"
        /\ Count(tasks[i].steps, "searchMore") >= 2
        /\ heap[tasks[i].vb].state.tweets # <<>>
        /\ Len(heap[tasks[i].vb].state.otherContent) >= 2
        /\ heap[tasks[i].vb].state.otherContent[1].call = 1
        /\ heap[tasks[i].vb].state.otherContent[2].call = 2

\* C16 as stated: once the disconnect of a connection has been handled, the
\* registry holds no session under the connection's id, in that state and in
\* every later one.
C16_NoSessionAfterDisconnect ==
    \A c \in Conns : ~connected[c] => voiceboards[c] = 0

\* The names of the events emitted to connection c, in order.
EventNames(c) == [k \in 1..Len(emitted[c]) |-> emitted[c][k].ev]

\* C17: a chat event with a non-empty message on a connection that has a
\* session makes the server emit typing(true) to the connection at once; the
\* handler emits nothing more until the chat settles, and then either the
\* response followed by typing(false), when chat() returned, or an error
\* followed by typing(false), when it threw, and nothing after that; in every
\* state each response emitted to a connection has a typing(true) before it.
C17_TypingResponseTyping ==
    [][/\ (/\ Len(tasks') = Len(tasks) + 1
           /\ tasks'[Len(tasks')].kind = "sockChat"
           /\ tasks'[Len(tasks')].msg # ""
           /\ voiceboards[tasks'[Len(tasks')].sid] # 0) =>
             LET t == tasks'[Len(tasks')]
             IN  /\ emitted'[t.sid] = emitted[t.sid] \o <<Event("typing", "true")>>
                 /\ t.pc \notin {"returned", "threw"}
       /\ \A i \in TaskIds :
             LET t == tasks[i]
             IN  t.kind = "sockChat" =>
                   IF Running(i)
                   THEN /\ t.msg # "" /\ t.vb # 0
                        /\ tasks'[i] # t =>
                             CASE tasks'[i].pc = "returned" ->
                                    emitted'[t.sid] = emitted[t.sid] \o
                                        <<Event("response", tasks'[i].ret),
                                          Event("typing", "false")>>
                               [] tasks'[i].pc = "threw" ->
                                    /\ Len(emitted'[t.sid]) = Len(emitted[t.sid]) + 2
                                    /\ SubSeq(emitted'[t.sid], 1, Len(emitted[t.sid])) = emitted[t.sid]
                                    /\ emitted'[t.sid][Len(emitted[t.sid]) + 1].ev = "error"
                                    /\ emitted'[t.sid][Len(emitted[t.sid]) + 2] = Event("typing", "false")
                               [] OTHER -> emitted' = emitted
                   ELSE tasks'[i] = t
       /\ \A c \in Conns :
             \A k \in 1..Len(emitted'[c]) :
                 emitted'[c][k].ev = "response" =>
                     \E j \in 1..(k - 1) : emitted'[c][j] = Event("typing", "true")]_vars

\* On one connection a chat has been answered and a second chat has failed.
C17_Witness ==
    \E c \in Conns :
        EventNames(c) = <<"status", "voiceboard-ready", "typing", "response", "typing",
                          "typing", "error", "typing">>

\* C18: a create-voiceboard event with a non-empty personName makes the
\* server emit status to the connection at once; the handler emits nothing
\* more until the initialization settles, and then exactly one event:
\* voiceboard-ready with the personName of the event, in a step that has
\* stored the initialized Voiceboard under the connection's id, or an error,
\* with the registry left as it was; it emits nothing after that.
C18_StatusThenReadyOrError ==
    [][/\ \A c \in Conns, p \in Persons :
             SockCreate(c, p) =>
                 LET t == tasks'[Len(tasks')]
                 IN  /\ emitted'[c] = emitted[c] \o <<Event("status", "Initializing voiceboard...")>>
                     /\ t.kind = "sockCreate" /\ t.sid = c
                     /\ t.pc \notin {"returned", "threw"}
                     /\ heap'[t.vb].personName = p
       /\ \A v \in 1..Len(heap) : heap'[v].personName = heap[v].personName
       /\ \A i \in TaskIds :
             LET t == tasks[i]
             IN  t.kind = "sockCreate" =>
                   IF Running(i)
                   THEN tasks'[i] # t =>
                          CASE tasks'[i].pc = "returned" ->
                                 /\ emitted'[t.sid] = emitted[t.sid] \o
                                       <<Event("voiceboard-ready", heap[t.vb].personName)>>
                                 /\ voiceboards'[t.sid] = t.vb
                                 /\ heap'[t.vb].initialized
                            [] tasks'[i].pc = "threw" ->
                                 /\ Len(emitted'[t.sid]) = Len(emitted[t.sid]) + 1
                                 /\ SubSeq(emitted'[t.sid], 1, Len(emitted[t.sid])) = emitted[t.sid]
                                 /\ emitted'[t.sid][Len(emitted'[t.sid])].ev = "error"
                                 /\ voiceboards' = voiceboards
                            [] OTHER -> emitted' = emitted
                   ELSE tasks'[i] = t]_vars

\* One connection has received status and voiceboard-ready and has its
\* session, another status and an error and has none.
C18_Witness ==
    \E c, d \in Conns :
        /\ EventNames(c) = <<"status", "voiceboard-ready">>
        /\ voiceboards[c] # 0
        /\ emitted[c][2].arg = heap[voiceboards[c]].personName
        /\ EventNames(d) = <<"status", "error">>
        /\ voiceboards[d] = 0

\* The fields of a state that hold the personality data.
Personality(state) ==
    <<state.tweets, state.otherContent, state.searchAttempts, state.dataSufficient>>

\* C19: a chat() called on an initialized Voiceboard enters the generate node
\* of the chat graph and no other node, so it makes no search call and runs
\* no evaluate; neither the call nor the step that settles it changes
\* tweets, otherContent, searchAttempts or dataSufficient of the Voiceboard.
C19_ChatTurnOnlyGenerates ==
    [][/\ (/\ Len(tasks') = Len(tasks) + 1
           /\ tasks'[Len(tasks')].kind = "chat"
           /\ heap[tasks'[Len(tasks')].vb].initialized) =>
             LET t == tasks'[Len(tasks')]
             IN  /\ t.steps = <<"chatGenerate">> /\ t.pc = "chatGenerate"
                 /\ Personality(t.run) = Personality(heap[t.vb].state)
                 /\ Personality(heap'[t.vb].state) = Personality(heap[t.vb].state)
       /\ \A i \in TaskIds :
             LET t == tasks[i]
             IN  (t.kind = "chat" /\ t.steps = <<"chatGenerate">> /\ tasks'[i] # t) =>
                     /\ tasks'[i].steps = t.steps
                     /\ tasks'[i].pc \in {"returned", "threw"}
                     /\ Personality(heap'[t.vb].state) = Personality(heap[t.vb].state)]_vars

\* A chat() on a Voiceboard initialized with 4 search attempts has returned:
\* it entered generate alone, and the Voiceboard holds the same material.
C19_Witness ==
    /\ Len(tasks) = 2
    /\ tasks[1].kind = "initialize" /\ tasks[1].pc = "returned"
    /\ tasks[2].kind = "chat" /\ tasks[2].pc = "returned"
    /\ tasks[2].steps = <<"chatGenerate">>
    /\ SearchCalls(tasks[2]) = 0
    /\ heap[1].state.searchAttempts = 4
    /\ heap[1].state.tweets # <<>> /\ heap[1].state.otherContent # <<>>
    /\ Len(heap[1].state.conversationHistory) = 4

\* The step has handled a request without constructing a Voiceboard, without
\* entering a node (so without a search or model call) and without touching
\* the registry or any other request: the request is settled when the step ends.
RejectedAtOnce ==
    /\ heap' = heap
    /\ voiceboards' = voiceboards
    /\ Len(tasks') = Len(tasks) + 1
    /\ SubSeq(tasks', 1, Len(tasks)) = tasks
    /\ tasks'[Len(tasks')].pc = "returned"
    /\ tasks'[Len(tasks')].steps = <<>>
    /\ tasks'[Len(tasks')].vb = 0

\* The step has emitted one error event to connection c and nothing else.
OnlyErrorEmitted(c) ==
    /\ \A d \in Conns \ {c} : emitted'[d] = emitted[d]
    /\ Len(emitted'[c]) = Len(emitted[c]) + 1
    /\ SubSeq(emitted'[c], 1, Len(emitted[c])) = emitted[c]
    /\ emitted'[c][Len(emitted'[c])].ev = "error"

\* C20: a create-voiceboard without personName and a chat event without
\* message are answered with one error event, a REST create without
\* personName or sessionId and a REST chat without sessionId or message with
\* status 400, in the step that receives them: no Voiceboard is constructed,
\* no node is entered, neither status nor typing is emitted, and the registry
\* is unchanged.
C20_MissingFieldRejectedAtOnce ==
    [][/\ \A c \in Conns :
             (SockCreate(c, "") \/ SockChat(c, "")) =>
                 (RejectedAtOnce /\ OnlyErrorEmitted(c))
       /\ \A s \in SessionIds \cup {""}, p \in Persons \cup {""} :
             ((s = "" \/ p = "") /\ RestCreate(s, p)) =>
                 (RejectedAtOnce /\ emitted' = emitted /\ tasks'[Len(tasks')].res = 400)
       /\ \A s \in SessionIds \cup {""}, m \in Messages \cup {""} :
             ((s = "" \/ m = "") /\ RestChat(s, m)) =>
                 (RejectedAtOnce /\ emitted' = emitted /\ tasks'[Len(tasks')].res = 400)]_vars

\* A chat event without message on a connection that has a session and a
\* REST chat without message for the same session have been rejected; the
\* session is as its creation left it.
C20_Witness ==
    \E c \in Conns :
        /\ Len(tasks) = 3
        /\ tasks[1].kind = "restCreate" /\ tasks[1].sid = c /\ tasks[1].pc = "returned"
        /\ tasks[2] = NewTask("sockChat", c, 0, "")
        /\ tasks[3] = [NewTask("restChat", c, 0, "") EXCEPT !.res = 400]
        /\ EventNames(c) = <<"error">>
        /\ voiceboards[c] = 1 /\ Len(heap) = 1
        /\ heap[1].state.conversationHistory = <<HumanMessage(""), AIMessage("reply-1")>>

\* C21: a chat event with a message and a clear-conversation event on a
\* connection that has no session are answered with one error event, a REST
\* chat with a message for a session id that is not in the registry with
\* status 404, in the step that receives them: no Voiceboard is constructed,
\* no node is entered (so no model call is made) and the registry is
\* unchanged.
C21_UnknownSessionReported ==
    [][/\ \A c \in Conns :
             (voiceboards[c] = 0 /\ (SockClear(c) \/ \E m \in Messages : SockChat(c, m))) =>
                 (RejectedAtOnce /\ OnlyErrorEmitted(c))
       /\ \A s \in SessionIds, m \in Messages :
             (voiceboards[s] = 0 /\ RestChat(s, m)) =>
                 (RejectedAtOnce /\ emitted' = emitted /\ tasks'[Len(tasks')].res = 404)]_vars

\* A chat event and a clear-conversation on a connection without a session
\* and a REST chat for an unknown session id have been answered, and the
\* registry is empty.
C21_Witness ==
    \E c \in Conns, s \in SessionIds :
        /\ Len(tasks) = 3
        /\ \E i \in TaskIds : tasks[i] = NewTask("sockChat", c, 0, "hello")
        /\ \E i \in TaskIds : tasks[i] = NewTask("sockClear", c, 0, "")
        /\ \E i \in TaskIds : tasks[i] = [NewTask("restChat", s, 0, "hello") EXCEPT !.res = 404]
        /\ EventNames(c) = <<"error", "error">>
        /\ \A x \in AllIds : voiceboards[x] = 0
        /\ heap = <<>>

\* The session registered under id in registry reg and heap hp: its
\* Voiceboard (snippets, searchAttempts, history, ...), or none.
SessionOf(reg, hp, id) == IF reg[id] = 0 THEN <<>> ELSE <<hp[reg[id]]>>

\* The step handles a request or event of session id, or is a step of one.
StepOf(id) ==
    \/ \E i \in 1..Len(tasks') :
          /\ tasks'[i].sid = id
          /\ i > Len(tasks) \/ tasks'[i] # tasks[i]
    \/ id \in Conns /\ connected'[id] # connected[id]

\* C22: a step changes the session registered under an id (its presence in
\* the registry, its Voiceboard's snippets, searchAttempts and history) or the
\* events emitted to a connection only when it is a step of a create, chat,
\* clear, delete or disconnect of that very id: the operations on any other
\* id leave the session as it was.
C22_SessionsIndependent ==
    [][/\ \A id \in AllIds :
             SessionOf(voiceboards', heap', id) # SessionOf(voiceboards, heap, id) => StepOf(id)
       /\ \A c \in Conns : emitted'[c] # emitted[c] => StepOf(c)]_vars

\* Two connections have created sessions; one has chatted and disconnected,
\* and the session of the other is as its creation left it.
C22_Witness ==
    \E c, d \in Conns :
        /\ c # d
        /\ \E i \in TaskIds : /\ tasks[i].kind = "sockChat" /\ tasks[i].sid = c
                               /\ tasks[i].pc = "returned"
        /\ ~connected[c] /\ voiceboards[c] = 0
        /\ voiceboards[d] # 0
        /\ Len(heap[voiceboards[d]].state.conversationHistory) = 2
        /\ EventNames(d) = <<"status", "voiceboard-ready">>

\* C23 as stated: while the initialization started by a create-voiceboard of
\* a connection has not completed, no chat generation for the same
\* connection is started or in progress.
C23_NoChatDuringInitialization ==
    \A i, j \in TaskIds :
        ~(/\ tasks[i].kind = "sockCreate" /\ Running(i)
          /\ tasks[j].kind = "sockChat" /\ Running(j)
          /\ tasks[i].sid = tasks[j].sid)

\* The chat events handled on Voiceboard v whose chat() has returned.
ChatsReturned(v) ==
    {i \in TaskIds : tasks[i].kind = "sockChat" /\ tasks[i].vb = v /\ tasks[i].pc = "returned"}
\* The user entries of a history that hold a message of a chat event.
QueriesRecorded(h) == {k \in 1..Len(h) : h[k].role = "human" /\ h[k].content \in Messages}

\* C24 as stated: once all chats issued on a session have completed, and no
\* clear happened, the history holds one (query, reply) pair for each chat
\* that returned, also when two of them were in flight together.
C24_EveryChatRecorded ==
    \A v \in 1..Len(heap) :
        (/\ InFlight = {}
         /\ \A i \in TaskIds : tasks[i].kind # "sockClear") =>
            Cardinality(QueriesRecorded(heap[v].state.conversationHistory))
                = Cardinality(ChatsReturned(v))

\* C25: a DELETE of a session id and the disconnect of a connection leave
\* the registry without an entry under that id and with every other entry as
\* it was; when the id was absent the registry is unchanged, so a second
\* removal leaves what the first left; no Voiceboard is modified.
C25_RemoveIdempotent ==
    [][\A id \in AllIds :
          (RestDelete(id) \/ (id \in Conns /\ Disconnect(id))) =>
              /\ voiceboards' = [voiceboards EXCEPT ![id] = 0]
              /\ voiceboards[id] = 0 => voiceboards' = voiceboards
              /\ heap' = heap]_vars

\* The one session created for a connection has been deleted over REST and
\* the connection has disconnected, so one of the two removals found the id
\* absent: the id is absent, and the session of the other connection is
\* still registered.
C25_Witness ==
    \E c, d \in Conns :
        /\ c # d
        /\ Len(tasks) = 3
        /\ \E i \in TaskIds : tasks[i].kind = "sockCreate" /\ tasks[i].sid = c
        /\ \E i \in TaskIds :
              tasks[i].kind = "restDelete" /\ tasks[i].sid = c /\ tasks[i].res = 200
        /\ \E i \in TaskIds : tasks[i].kind = "sockCreate" /\ tasks[i].sid = d
        /\ ~connected[c]
        /\ voiceboards[c] = 0
        /\ voiceboards[d] # 0

\* The query searchMore sends when the run's searchAttempts is k.
QueryAt(state, k) == searchAdditionalQuery([state EXCEPT !.searchAttempts = k])

\* C26: the query of a searchMore step is the person's name with one
\* template when searchAttempts = 1, a second when searchAttempts = 2 and a
\* third for any other value; the n-th searchMore step of a run is made with
\* searchAttempts = n, and its query differs from the queries of the
\* searchMore steps the run made before it.
C26_QueryTemplatePerAttempt ==
    \A i \in TaskIds :
        tasks[i].pc = "searchMore" =>
            LET state == tasks[i].run
                query == searchAdditionalQuery(state)
                n == Count(tasks[i].steps, "searchMore")
            IN  /\ query[1] = state.personName
                /\ query[2] = IF state.searchAttempts = 1 THEN "interview podcast 2024"
                              ELSE IF state.searchAttempts = 2 THEN "speech quotes recent"
                              ELSE "opinions views"
                /\ \A k \in (0..(MaxAttempts + 1)) \ {1, 2} : QueryAt(state, k) = QueryAt(state, 3)
                /\ state.searchAttempts = n
                /\ \A k \in 1..(n - 1) : QueryAt(state, k) # query

\* A run is in its third searchMore step, after two others.
C26_Witness ==
    \E i \in TaskIds :
        /\ tasks[i].pc = "searchMore"
        /\ Count(tasks[i].steps, "searchMore") = 3
        /\ searchAdditionalQuery(tasks[i].run) = <<"Ada", "opinions views">>

ErrorEvents(seq) == Cardinality({k \in 1..Len(seq) : seq[k].ev = "error"})

\* C27: when the search or model call awaited for a create-voiceboard or
\* chat event rejects, the step emits exactly one error event to the
\* connection of the event and nothing to any other connection, and leaves
\* the registry, every Voiceboard and every other request as they were; and
\* in every state, whatever has failed before, the gateway accepts a chat
\* event and a create-voiceboard event from every open connection.
C27_FailureStaysInHandler ==
    /\ [][\A i \in TaskIds :
            LET t == tasks[i]
            IN  (/\ t.kind \in {"sockCreate", "sockChat"}
                 /\ Running(i)
                 /\ tasks'[i].pc = "threw") =>
                    /\ ErrorEvents(emitted'[t.sid]) = ErrorEvents(emitted[t.sid]) + 1
                    /\ \A d \in Conns \ {t.sid} : emitted'[d] = emitted[d]
                    /\ voiceboards' = voiceboards
                    /\ heap' = heap
                    /\ connected' = connected
                    /\ \A j \in TaskIds \ {i} : tasks'[j] = tasks[j]]_vars
    /\ [](\A c \in Conns :
            (connected[c] /\ Len(tasks) < MaxRequests) =>
                /\ \A m \in Messages : ENABLED SockChat(c, m)
                /\ Len(heap) < MaxBoards => \A p \in Persons : ENABLED SockCreate(c, p))

\* The initialization for one connection has failed and reported its one
\* error; after it another connection has created its session and a chat on
\* it has been answered.
C27_Witness ==
    \E c, d \in Conns :
        /\ c # d
        /\ Len(tasks) = 3
        /\ tasks[1].kind = "sockCreate" /\ tasks[1].sid = c /\ tasks[1].pc = "threw"
        /\ EventNames(c) = <<"status", "error">>
        /\ tasks[2].kind = "sockCreate" /\ tasks[2].sid = d /\ tasks[2].pc = "returned"
        /\ tasks[3].kind = "sockChat" /\ tasks[3].sid = d /\ tasks[3].pc = "returned"
        /\ EventNames(d) = <<"status", "voiceboard-ready", "typing", "response", "typing">>
        /\ voiceboards[d] # 0

\* C28 as stated: when every external call eventually returns or fails,
\* every workflow run that has started reaches the generate step, whether or
\* not its search calls fail.
C28_RunReachesGenerate ==
    \A i \in 1..MaxCalls :
        (i <= Len(tasks) /\ tasks[i].pc = "searchTweets")
            ~> (i <= Len(tasks) /\ Count(tasks[i].steps, "generate") = 1)

\* C29: every Voiceboard in the registry is initialized; an entry is added
\* or replaced only by the step in which the initialization of a create for
\* that id completes, after its workflow has run through generate; and a
\* create whose initialization throws leaves the registry as it was.
C29_RegistryHoldsInitialized ==
    /\ [](\A id \in AllIds : voiceboards[id] # 0 => heap[voiceboards[id]].initialized)
    /\ [][\A id \in AllIds :
             (voiceboards'[id] # voiceboards[id] /\ voiceboards'[id] # 0) =>
                 \E i \in TaskIds :
                     /\ IsCreate(tasks[i]) /\ tasks[i].sid = id
                     /\ tasks[i].pc = "generate" /\ tasks'[i].pc = "returned"
                     /\ tasks[i].vb = voiceboards'[id]
                     /\ heap'[tasks[i].vb].initialized]_vars
    /\ [][\A j \in TaskIds :
             (IsCreate(tasks[j]) /\ Running(j) /\ tasks'[j].pc = "threw") =>
                 voiceboards' = voiceboards]_vars

\* A socket create has stored its initialized Voiceboard; a REST create for
\* the same id has failed after it and the entry is the one stored before.
C29_Witness ==
    \E i, j \in TaskIds :
        /\ i < j
        /\ tasks[i].kind = "sockCreate" /\ tasks[i].pc = "returned" /\ tasks[i].vb # 0
        /\ tasks[j].kind = "restCreate" /\ tasks[j].pc = "threw" /\ tasks[j].vb # 0
        /\ tasks[j].sid = tasks[i].sid
        /\ voiceboards[tasks[i].sid] = tasks[i].vb
        /\ heap[tasks[i].vb].initialized
        /\ ~heap[tasks[j].vb].initialized

\* C30 as stated: two chat() calls on a Voiceboard, the second made while
\* the first is still awaiting the initialization and neither meeting a
\* failed call, run the initialization workflow at most once in total.
C30_OverlappingChatsInitializeOnce ==
    \A i, j \in TaskIds :
        (/\ i < j
         /\ tasks[i].kind = "chat" /\ tasks[j].kind = "chat"
         /\ tasks[i].vb = tasks[j].vb
         /\ tasks[i].failed = "none" /\ tasks[j].failed = "none") =>
            Count(tasks[i].steps, "searchTweets") + Count(tasks[j].steps, "searchTweets") <= 1

\* C31 as stated: when a clear-conversation is handled while a chat of the
\* same session is still awaiting the model, the history the chat leaves when
\* it completes holds the pair of that chat after what the history held since
\* the clear, and no entry of the history the clear emptied.
C31_ClearedEntriesStayGone ==
    [][\A j, k \in TaskIds :
          (/\ j < k
           /\ tasks[j].kind = "sockChat" /\ tasks[k].kind = "sockClear"
           /\ tasks[j].vb # 0 /\ tasks[k].vb = tasks[j].vb
           /\ tasks[j].pc = "chatGenerate" /\ tasks'[j].pc = "returned") =>
              heap'[tasks[j].vb].state.conversationHistory =
                  heap[tasks[j].vb].state.conversationHistory \o
                      <<HumanMessage(tasks[j].msg), AIMessage(tasks'[j].ret)>>]_vars

\* C32: the generate step that ends the initialization workflow of a
\* Voiceboard still as its constructor left it runs with the empty current
\* query, so the step in which that initialization completes leaves a
\* history of exactly one pair, the empty user query and the reply; and the
\* step in which a chat completes, no other call being in flight and none
\* made since the chat was, appends exactly one pair, the chat's message
\* and its reply, to the history.
C32_InitPairThenOnePairPerChat ==
    [][\A i \in TaskIds :
          LET t == tasks[i]
              v == t.vb
          IN  /\ (/\ t.pc = "generate" /\ tasks'[i].pc \in {"returned", "chatGenerate"}
                  /\ heap[v] = Voiceboard(heap[v].personName)) =>
                     /\ t.run.currentQuery = ""
                     /\ heap'[v].initialized
                     /\ heap'[v].state.conversationHistory =
                           <<HumanMessage(""), AIMessage(heap'[v].state.response)>>
              /\ (/\ t.pc = "chatGenerate" /\ tasks'[i].pc = "returned"
                  /\ i = Len(tasks)
                  /\ \A k \in TaskIds \ {i} : ~Running(k)) =>
                     /\ heap'[v].state.conversationHistory =
                           heap[v].state.conversationHistory \o
                               <<HumanMessage(t.msg), AIMessage(tasks'[i].ret)>>
                     /\ Len(heap'[v].state.conversationHistory) =
                           Len(heap[v].state.conversationHistory) + 2]_vars

\* initialize() of the new Voiceboard has returned and a chat after it has
\* returned: the history holds the empty-query pair and the chat's pair.
C32_Witness ==
    /\ Len(tasks) = 2
    /\ tasks[1].kind = "initialize" /\ tasks[1].pc = "returned"
    /\ Count(tasks[1].steps, "generate") = 1
    /\ tasks[2].kind = "chat" /\ tasks[2].pc = "returned"
    /\ heap[1].state.conversationHistory =
          <<HumanMessage(""), AIMessage("reply-1"), HumanMessage("hello"), AIMessage("reply-1")>>

\* The task threw out of the initialization workflow.
InitThrew(t) == t.pc = "threw" /\ t.steps[Len(t.steps)] # "chatGenerate"

\* C33: a step of an initialization workflow that is not its completion, the
\* step in which it throws included, leaves the Voiceboard as it was, so
\* that a Voiceboard whose initialization threw is uninitialized with the
\* tweets, otherContent, searchAttempts and history it had before the call;
\* and the next chat or initialize call made on it enters the workflow at
\* searchTweets with exactly that state as input.
C33_FailedInitLeavesState ==
    /\ [][\A i \in TaskIds :
             (/\ InWorkflow(tasks[i])
              /\ tasks'[i] # tasks[i]
              /\ tasks'[i].pc \notin {"returned", "chatGenerate"}) =>
                 /\ heap' = heap
                 /\ ~heap'[tasks[i].vb].initialized]_vars
    /\ [](\A i \in TaskIds :
             (i = Len(tasks) /\ InitThrew(tasks[i])) => ~heap[tasks[i].vb].initialized)
    /\ [][(/\ tasks # <<>>
           /\ InitThrew(tasks[Len(tasks)])
           /\ Len(tasks') = Len(tasks) + 1
           /\ tasks'[Len(tasks')].kind \in {"initialize", "chat"}) =>
              /\ tasks'[Len(tasks')].pc = "searchTweets"
              /\ tasks'[Len(tasks')].run = heap[tasks[Len(tasks)].vb].state
              /\ heap' = heap]_vars

\* initialize() threw when the model call of its generate step failed, and
\* the chat made next has entered the workflow on the Voiceboard, which is
\* as its constructor left it.
C33_Witness ==
    /\ Len(tasks) = 2
    /\ tasks[1].kind = "initialize" /\ tasks[1].pc = "threw" /\ tasks[1].failed = "model"
    /\ Count(tasks[1].steps, "searchMore") = 1
    /\ tasks[2].kind = "chat" /\ tasks[2].pc = "searchTweets"
    /\ tasks[2].run = Voiceboard("Ada").state
    /\ heap[1] = Voiceboard("Ada")

\* C34: a call of refreshPersonality empties tweets and otherContent, sets
\* searchAttempts to 0 and initialized to false, and enters the
\* initialization workflow at searchTweets on that state, the history being
\* the one the Voiceboard had; the run carries that history unchanged up to
\* its last step; and the step in which the refresh completes, after
\* searchTweets, evaluate and generate have run, leaves the Voiceboard
\* initialized with 1 <= searchAttempts <= 4 and with the history of before
\* the refresh as a prefix of its history.
C34_RefreshRerunsAndKeepsHistory ==
    /\ [][\A v \in 1..Len(heap) :
             RefreshCalled(v) =>
                 LET t == tasks'[Len(tasks')]
                 IN  /\ heap'[v].state.tweets = <<>>
                     /\ heap'[v].state.otherContent = <<>>
                     /\ heap'[v].state.searchAttempts = 0
                     /\ ~heap'[v].initialized
                     /\ t.pc = "searchTweets"
                     /\ t.run = heap'[v].state
                     /\ t.run.conversationHistory = heap[v].state.conversationHistory]_vars
    /\ [][\A i \in TaskIds :
             (tasks[i].kind = "refresh" /\ InWorkflow(tasks[i]) /\ tasks'[i] # tasks[i]) =>
                 IF tasks'[i].pc = "returned"
                 THEN /\ heap'[tasks[i].vb].initialized
                      /\ heap'[tasks[i].vb].state.searchAttempts \in 1..4
                      /\ IsPrefix(tasks[i].run.conversationHistory,
                                  heap'[tasks[i].vb].state.conversationHistory)
                      /\ tasks'[i].steps[1] = "searchTweets"
                      /\ Count(tasks'[i].steps, "evaluate") >= 1
                      /\ Count(tasks'[i].steps, "generate") = 1
                 ELSE \/ tasks'[i].pc = "threw"
                      \/ tasks'[i].run.conversationHistory = tasks[i].run.conversationHistory]_vars

\* A chat has initialized the Voiceboard and been answered; the refresh made
\* after it has completed after 4 searches, and the history holds the two
\* pairs of before the refresh followed by the pair of the refresh's run.
C34_Witness ==
    /\ Len(tasks) = 2
    /\ tasks[1].kind = "chat" /\ tasks[1].pc = "returned"
    /\ tasks[2].kind = "refresh" /\ tasks[2].pc = "returned"
    /\ heap[1].initialized
    /\ heap[1].state.searchAttempts = 4
    /\ Len(heap[1].state.conversationHistory) = 6
    /\ SubSeq(heap[1].state.conversationHistory, 1, 4) =
          <<HumanMessage(""), AIMessage("reply-1"), HumanMessage("hello"), AIMessage("reply-1")>>

\* The page has emitted create-voiceboard for the name n.
CreateEmitted(n) ==
    \E k \in 1..Len(page.outbox) : page.outbox[k] = Event("create-voiceboard", n)

\* The Start Chatting button is rendered and enabled.
StartOffered == Visible("start") /\ ~Disabled("start")

\* C35 as stated: once the page is connected and the user has picked a clone
\* or typed a custom name, a user who clicks Start Chatting whenever it is
\* visible and enabled gets the create-voiceboard event carrying that name
\* emitted to the server.
C35_NamedLeadsToCreate ==
    \A n \in Clones \cup TypedNames :
        (page.isConnected /\ n # "" /\ PersonName = n) ~> CreateEmitted(n)

\* No state of the page offers Start Chatting, and the page never emits
\* create-voiceboard.
C35_StartNeverOffered ==
    /\ ~StartOffered
    /\ \A n \in Clones \cup TypedNames : ~CreateEmitted(n)
    /\ ~page.isInitializing

\* The last typing event emitted to connection c is typing(true).
TypingOn(c) ==
    \E k \in 1..Len(emitted[c]) :
        /\ emitted[c][k] = Event("typing", "true")
        /\ \A j \in (k + 1)..Len(emitted[c]) : emitted[c][j].ev # "typing"

\* The isTyping of a page whose handlers have run for the events in order:
\* typing sets it to its argument, response and error to false.
IsTypingAfter(events) ==
    \E k \in 1..Len(events) :
        /\ events[k] = Event("typing", "true")
        /\ \A j \in (k + 1)..Len(events) : events[j].ev \notin {"typing", "response", "error"}

\* A chat handler of connection c is awaiting its chat() call.
ChatPending(c) ==
    \E i \in TaskIds : tasks[i].kind = "sockChat" /\ tasks[i].sid = c /\ Running(i)

\* C36: when every model call eventually returns or fails, a typing(true)
\* emitted to a connection is eventually followed by a typing(false) to the
\* same connection; and whenever no chat handler of the connection is
\* pending, whether its chats ended in response or in error, the last typing
\* event emitted to it is typing(false) and a page that has handled the
\* events shows no typing indicator.
C36_TypingEventuallyOff ==
    /\ [](\A c \in Conns :
            ~ChatPending(c) => (~TypingOn(c) /\ ~IsTypingAfter(emitted[c])))
    /\ \A c \in Conns : TypingOn(c) ~> ~TypingOn(c)

\* On one connection a chat has ended in response and another in error, and
\* the last event of each is typing(false).
C36_Witness ==
    \E c \in Conns :
        /\ Len(tasks) = 3
        /\ tasks[2].kind = "sockChat" /\ tasks[2].sid = c /\ tasks[2].pc = "returned"
        /\ tasks[3].kind = "sockChat" /\ tasks[3].sid = c /\ tasks[3].pc = "threw"
        /\ EventNames(c) = <<"status", "voiceboard-ready", "typing", "response", "typing",
                             "typing", "error", "typing">>
        /\ emitted[c][Len(emitted[c])] = Event("typing", "false")
        /\ ~TypingOn(c)

\* The search calls of task t that have settled: those issued, less the one
\* the task is awaiting.
SettledSearchCalls(t) ==
    SearchCalls(t) - (IF t.pc \in {"searchTweets", "searchMore"} THEN 1 ELSE 0)

\* The searchAttempts of the run of task i: that of its channels while the
\* run is in progress, that of the Voiceboard once the run is over.
AttemptsOf(i) ==
    IF InWorkflow(tasks[i]) THEN tasks[i].run.searchAttempts
    ELSE heap[tasks[i].vb].state.searchAttempts

\* C37 as stated: during and at the end of an initialization run,
\* searchAttempts equals the number of search provider calls of the run that
\* have settled, successful or failed.
C37_AttemptsCountCalls ==
    \A i \in TaskIds :
        (i = Len(tasks) /\ tasks[i].steps # <<>> /\ tasks[i].steps[1] = "searchTweets") =>
            AttemptsOf(i) = SettledSearchCalls(tasks[i])

\* The same for the runs none of whose calls has failed: searchAttempts is
\* the number of search calls that have returned.
C37_AttemptsCountReturnedCalls ==
    \A i \in TaskIds :
        (/\ i = Len(tasks) /\ tasks[i].steps # <<>> /\ tasks[i].steps[1] = "searchTweets"
         /\ tasks[i].failed = "none") =>
            AttemptsOf(i) = SettledSearchCalls(tasks[i])

\* The states a and b agree on every field outside fields.
SameBut(a, b, fields) == \A f \in (DOMAIN a) \ fields : a[f] = b[f]

\* C38: a step of a run leaves every field of the state but its own as it
\* was: searchTweets changes at most tweets and searchAttempts, searchMore
\* at most otherContent and searchAttempts, evaluate at most dataSufficient,
\* and generate, in the state the Voiceboard is assigned, at most response,
\* conversationHistory and personalityContext.  No step changes personName
\* or currentQuery; the currentQuery of the chat run that follows an
\* initialization is the message chat() assigns after the workflow.
C38_StepFrame ==
    [][\A i \in TaskIds :
          LET t == tasks[i]
              u == tasks'[i]
              generated == {"response", "conversationHistory", "personalityContext"}
          IN  (Running(i) /\ u # t /\ u.pc # "threw") =>
                CASE t.pc = "searchTweets" ->
                        SameBut(t.run, u.run, {"tweets", "searchAttempts"})
                  [] t.pc = "searchMore" ->
                        SameBut(t.run, u.run, {"otherContent", "searchAttempts"})
                  [] t.pc = "evaluate" -> SameBut(t.run, u.run, {"dataSufficient"})
                  [] t.pc = "generate" /\ u.pc = "chatGenerate" ->
                        /\ SameBut(t.run, u.run, generated \cup {"currentQuery"})
                        /\ u.run.currentQuery = t.msg
                        /\ heap'[t.vb].state = u.run
                  [] OTHER -> SameBut(t.run, heap'[t.vb].state, generated)]_vars

\* A run has returned after searchTweets, searchMore, evaluate and generate
\* have each changed its own fields, with personName and currentQuery as
\* the constructor set them.
C38_Witness ==
    \E i \in TaskIds :
        /\ tasks[i].kind = "initialize" /\ tasks[i].pc = "returned"
        /\ Count(tasks[i].steps, "searchMore") >= 1
        /\ i = Len(tasks)
        /\ LET state == heap[tasks[i].vb].state
           IN  /\ state.tweets # <<>> /\ state.otherContent # <<>>
               /\ state.searchAttempts >= 2
               /\ state.dataSufficient
               /\ state.response # ""
               /\ state.conversationHistory # <<>>
               /\ state.personalityContext # <<>>
               /\ state.personName = "Ada"
               /\ state.currentQuery = ""

====
